---------------------------- MODULE Spec2Model ----------------------------
(***************************************************************************)
(* Biquad coefficient design (rta_biquad.c) and the yin mex entry point    *)
(* (matlab/rta_mex_yin.c).                                                 *)
(*                                                                         *)
(* rta_real_t values are modelled as extended rationals <<n, d>>:          *)
(*   d > 0, gcd(|n|, d) = 1   the finite value n/d                         *)
(*   <<1, 0>>, <<-1, 0>>      +infinity, -infinity                         *)
(*   <<0, 0>>                 NaN                                          *)
(* with the IEEE-754 rules for 1/0, 0*inf, inf-inf and NaN propagation.    *)
(* Rounding is not modelled: the arithmetic is exact.  The design          *)
(* frequencies are the angles whose sine and cosine are rational, gains    *)
(* are fourth powers of rationals, so that sin, cos and sqrt are exact.    *)
(***************************************************************************)
EXTENDS Integers, Sequences, FiniteSets, TLC

VARIABLES
  f0_in,       \* design frequency of the session (normalised by Nyquist)
  q_in,        \* quality factor of the session
  b_buf,       \* caller's numerator buffer   b[0..2]  (1-based here)
  a_buf,       \* caller's denominator buffer a[0..1]  (1-based here)
  last,        \* the last call made: [fn, type, gain]
  ret,         \* what the last call handed back to its caller
  ncalls,      \* number of calls made on the buffers
  mex_in,      \* mexFunction: prhs[] as [sample_rate, min_freq, input_size]
  plhs,        \* mexFunction: sizes of the output arrays created
  yin_calls,   \* mexFunction: number of calls of rta_yin
  diag,        \* mexFunction: arguments of the printf diagnostic, <<>> if none
  mex_pc       \* mexFunction: "idle", "ready" or "done"

vars == <<f0_in, q_in, b_buf, a_buf, last, ret, ncalls, mex_in, plhs, yin_calls, diag, mex_pc>>

biquad_vars == <<f0_in, q_in, b_buf, a_buf, last, ret, ncalls>>

mex_vars == <<mex_in, plhs, yin_calls, diag, mex_pc>>

-----------------------------------------------------------------------------
(* Bounds *)

MaxCalls == 2

MaxInputSize == 12

-----------------------------------------------------------------------------
(* rta_real_t arithmetic *)

Abs(x) == IF x < 0 THEN -x ELSE x

Sgn(x) == IF x < 0 THEN -1 ELSE IF x > 0 THEN 1 ELSE 0

RECURSIVE GCD(_, _)
GCD(x, y) == IF y = 0 THEN x ELSE GCD(y, x % y)

Norm(n, d) ==
  IF d = 0 THEN <<Sgn(n), 0>>
  ELSE LET g == GCD(Abs(n), Abs(d))
       IN  <<(Sgn(n) * Sgn(d)) * (Abs(n) \div g), Abs(d) \div g>>

R(n) == <<n, 1>>

Frac(n, d) == Norm(n, d)

RNaN == <<0, 0>>

IsNaN(x) == x = RNaN

IsInf(x) == x[2] = 0 /\ x[1] # 0

IsFinite(x) == x[2] > 0

RNeg(x) == <<-x[1], x[2]>>

RAdd(x, y) ==
  IF IsInf(x) /\ IsInf(y)
  THEN (IF x = y THEN x ELSE RNaN)
  ELSE Norm(x[1] * y[2] + y[1] * x[2], x[2] * y[2])

RSub(x, y) == RAdd(x, RNeg(y))

RMul(x, y) == Norm(x[1] * y[1], x[2] * y[2])

\* 1/x; a zero divisor is +0 everywhere in the formulas, so 1/0 = +inf
RInv(x) == IF x[1] < 0 THEN <<-x[2], -x[1]>> ELSE <<x[2], x[1]>>

RDiv(x, y) == RMul(x, RInv(y))

RLess(x, y) ==
  /\ ~IsNaN(x) /\ ~IsNaN(y)
  /\ IF IsInf(x) \/ IsInf(y)
     THEN (x # y) /\ (x = <<-1, 0>> \/ y = <<1, 0>>)
     ELSE x[1] * y[2] < y[1] * x[2]

ISqrt(n) == CHOOSE i \in 0..n : i * i = n

rta_sqrt(x) ==
  IF IsNaN(x) \/ x[1] < 0 THEN RNaN
  ELSE IF IsInf(x) THEN x
  ELSE <<ISqrt(x[1]), ISqrt(x[2])>>

\* The angles w0 = M_PI * f0 of the model, given by f0, with their exact
\* sine and cosine.  With t = atan(3/4)/pi = 0.2048..., the entries
\* 128/625, 369/1250, 497/625, -128/625 and 753/625 stand for
\* t, 1/2 - t, 1 - t, -t and 1 + t.
AngleTable ==
  { [f0 |-> <<0, 1>>,      sin |-> <<0, 1>>,  cos |-> <<1, 1>>],
    [f0 |-> <<1, 2>>,      sin |-> <<1, 1>>,  cos |-> <<0, 1>>],
    [f0 |-> <<128, 625>>,  sin |-> <<3, 5>>,  cos |-> <<4, 5>>],
    [f0 |-> <<369, 1250>>, sin |-> <<4, 5>>,  cos |-> <<3, 5>>],
    [f0 |-> <<497, 625>>,  sin |-> <<3, 5>>,  cos |-> <<-4, 5>>],
    [f0 |-> <<-128, 625>>, sin |-> <<-3, 5>>, cos |-> <<4, 5>>],
    [f0 |-> <<753, 625>>,  sin |-> <<-3, 5>>, cos |-> <<-4, 5>>] }

\* M_PI * f: the angle of f half-turns
MPiTimes(f) == [halfturns |-> f]

Angle(w0) == CHOOSE e \in AngleTable : e.f0 = w0.halfturns

rta_sin(w0) == Angle(w0).sin

rta_cos(w0) == Angle(w0).cos

-----------------------------------------------------------------------------
(* The nine formulas.  Each takes the caller's buffers as they are before  *)
(* the call and gives them as they are when it returns.                    *)

\* the lowpass formula with b[1] given the halved term of b[0]
rta_biquad_lowpass_coefs_b1_halved(b, a, f0, q) ==
  LET w0     == MPiTimes(f0)
      alpha  == RDiv(rta_sin(w0), RMul(R(2), q))
      c      == rta_cos(w0)
      a0_inv == RDiv(R(1), RAdd(R(1), alpha))
      a1     == RMul(RMul(R(-2), c), a0_inv)
      a2     == RMul(RSub(R(1), alpha), a0_inv)
      b0     == RMul(RMul(RSub(R(1), c), Frac(1, 2)), a0_inv)
      b1     == b0
      b2     == b0
  IN  [b |-> <<b0, b1, b2>>, a |-> <<a1, a2>>]

\* LPF: H(s) = 1 / (s^2 + s/Q + 1)
rta_biquad_lowpass_coefs(b, a, f0, q) ==
  LET w0     == MPiTimes(f0)
      alpha  == RDiv(rta_sin(w0), RMul(R(2), q))
      c      == rta_cos(w0)
      a0_inv == RDiv(R(1), RAdd(R(1), alpha))
      a1     == RMul(RMul(R(-2), c), a0_inv)
      a2     == RMul(RSub(R(1), alpha), a0_inv)
      b0     == RMul(RMul(RSub(R(1), c), Frac(1, 2)), a0_inv)
      b1     == RMul(RSub(R(1), c), a0_inv)
      b2     == b0
  IN  [b |-> <<b0, b1, b2>>, a |-> <<a1, a2>>]

\* HPF: H(s) = s^2 / (s^2 + s/Q + 1)
rta_biquad_highpass_coefs(b, a, f0, q) ==
  LET w0     == MPiTimes(f0)
      alpha  == RDiv(rta_sin(w0), RMul(R(2), q))
      c      == rta_cos(w0)
      a0_inv == RDiv(R(1), RAdd(R(1), alpha))
      a1     == RMul(RMul(R(-2), c), a0_inv)
      a2     == RMul(RSub(R(1), alpha), a0_inv)
      b0     == RMul(RMul(RAdd(R(1), c), Frac(1, 2)), a0_inv)
      b1     == RMul(RSub(R(-1), c), a0_inv)
      b2     == b0
  IN  [b |-> <<b0, b1, b2>>, a |-> <<a1, a2>>]

\* BPF: H(s) = s / (s^2 + s/Q + 1)  (constant skirt gain, peak gain = Q)
rta_biquad_bandpass_constant_skirt_coefs(b, a, f0, q) ==
  LET w0     == MPiTimes(f0)
      s      == rta_sin(w0)
      alpha  == RDiv(s, RMul(R(2), q))
      c      == rta_cos(w0)
      a0_inv == RDiv(R(1), RAdd(R(1), alpha))
      a1     == RMul(RMul(R(-2), c), a0_inv)
      a2     == RMul(RSub(R(1), alpha), a0_inv)
      b0     == RMul(RMul(s, Frac(1, 2)), a0_inv)
      b1     == R(0)
      b2     == RNeg(b0)
  IN  [b |-> <<b0, b1, b2>>, a |-> <<a1, a2>>]

\* BPF: H(s) = (s/Q) / (s^2 + s/Q + 1)      (constant 0 dB peak gain)
rta_biquad_bandpass_constant_peak_coefs(b, a, f0, q) ==
  LET w0     == MPiTimes(f0)
      alpha  == RDiv(rta_sin(w0), RMul(R(2), q))
      c      == rta_cos(w0)
      a0_inv == RDiv(R(1), RAdd(R(1), alpha))
      a1     == RMul(RMul(R(-2), c), a0_inv)
      a2     == RMul(RSub(R(1), alpha), a0_inv)
      b0     == RMul(alpha, a0_inv)
      b1     == R(0)
      b2     == RNeg(b0)
  IN  [b |-> <<b0, b1, b2>>, a |-> <<a1, a2>>]

\* notch: H(s) = (s^2 + 1) / (s^2 + s/Q + 1)
\* b[1] = b[1]: the middle numerator term keeps what the buffer held
rta_biquad_notch_coefs(b, a, f0, q) ==
  LET w0     == MPiTimes(f0)
      alpha  == RDiv(rta_sin(w0), RMul(R(2), q))
      c      == rta_cos(w0)
      a0_inv == RDiv(R(1), RAdd(R(1), alpha))
      a1     == RMul(RMul(R(-2), c), a0_inv)
      a2     == RMul(RSub(R(1), alpha), a0_inv)
      b0     == a0_inv
      b1     == b[2]
      b2     == b0
  IN  [b |-> <<b0, b1, b2>>, a |-> <<a1, a2>>]

\* the allpass formula with the indices of a exchanged: b[0] = a[0], b[1] = a[1]
rta_biquad_allpass_coefs_a_exchanged(b, a, f0, q) ==
  LET w0     == MPiTimes(f0)
      alpha  == RDiv(rta_sin(w0), RMul(R(2), q))
      c      == rta_cos(w0)
      a0_inv == RDiv(R(1), RAdd(R(1), alpha))
      a1     == RMul(RMul(R(-2), c), a0_inv)
      a2     == RMul(RSub(R(1), alpha), a0_inv)
      b0     == a1
      b1     == a2
      b2     == RMul(RAdd(R(1), alpha), a0_inv)
  IN  [b |-> <<b0, b1, b2>>, a |-> <<a1, a2>>]

\* APF: H(s) = (s^2 - s/Q + 1) / (s^2 + s/Q + 1)
rta_biquad_allpass_coefs(b, a, f0, q) ==
  LET w0     == MPiTimes(f0)
      alpha  == RDiv(rta_sin(w0), RMul(R(2), q))
      c      == rta_cos(w0)
      a0_inv == RDiv(R(1), RAdd(R(1), alpha))
      a1     == RMul(RMul(R(-2), c), a0_inv)
      a2     == RMul(RSub(R(1), alpha), a0_inv)
      b0     == a2
      b1     == a1
      b2     == RMul(RAdd(R(1), alpha), a0_inv)
  IN  [b |-> <<b0, b1, b2>>, a |-> <<a1, a2>>]

\* peakingEQ: H(s) = (s^2 + s*(A/Q) + 1) / (s^2 + s/(A*Q) + 1)
rta_biquad_peaking_coefs(b, a, f0, q, gain) ==
  LET g      == rta_sqrt(gain)
      g_inv  == RDiv(R(1), g)
      w0     == MPiTimes(f0)
      alpha  == RDiv(rta_sin(w0), RMul(R(2), q))
      c      == rta_cos(w0)
      a0_inv == RDiv(R(1), RAdd(R(1), RMul(alpha, g_inv)))
      a1     == RMul(RMul(R(-2), c), a0_inv)
      a2     == RMul(RSub(R(1), RMul(alpha, g_inv)), a0_inv)
      b0     == RMul(RAdd(R(1), RMul(alpha, g)), a0_inv)
      b1     == a1
      b2     == RMul(RSub(R(1), RMul(alpha, g)), a0_inv)
  IN  [b |-> <<b0, b1, b2>>, a |-> <<a1, a2>>]

\* the lowshelf formula with the inner sign of b[1] taken from the highshelf
rta_biquad_lowshelf_coefs_b1_sign(b, a, f0, q, gain) ==
  LET g      == rta_sqrt(gain)
      w0     == MPiTimes(f0)
      alpha_2_sqrtg == RDiv(RMul(rta_sin(w0), rta_sqrt(g)), q)
      c      == rta_cos(w0)
      gp1    == RAdd(g, R(1))
      gm1    == RSub(g, R(1))
      a0_inv == RDiv(R(1), RAdd(RAdd(gp1, RMul(gm1, c)), alpha_2_sqrtg))
      a1     == RMul(RMul(R(-2), RAdd(gm1, RMul(gp1, c))), a0_inv)
      a2     == RMul(RSub(RAdd(gp1, RMul(gm1, c)), alpha_2_sqrtg), a0_inv)
      b0     == RMul(RMul(g, RAdd(RSub(gp1, RMul(gm1, c)), alpha_2_sqrtg)),
                     a0_inv)
      b1     == RMul(RMul(RMul(R(2), g), RAdd(gm1, RMul(gp1, c))), a0_inv)
      b2     == RMul(RMul(g, RSub(RSub(gp1, RMul(gm1, c)), alpha_2_sqrtg)),
                     a0_inv)
  IN  [b |-> <<b0, b1, b2>>, a |-> <<a1, a2>>]

\* lowShelf: H(s) = A * (s^2 + (sqrt(A)/Q)*s + A)/(A*s^2 + (sqrt(A)/Q)*s + 1)
rta_biquad_lowshelf_coefs(b, a, f0, q, gain) ==
  LET g      == rta_sqrt(gain)
      w0     == MPiTimes(f0)
      alpha_2_sqrtg == RDiv(RMul(rta_sin(w0), rta_sqrt(g)), q)
      c      == rta_cos(w0)
      gp1    == RAdd(g, R(1))
      gm1    == RSub(g, R(1))
      a0_inv == RDiv(R(1), RAdd(RAdd(gp1, RMul(gm1, c)), alpha_2_sqrtg))
      a1     == RMul(RMul(R(-2), RAdd(gm1, RMul(gp1, c))), a0_inv)
      a2     == RMul(RSub(RAdd(gp1, RMul(gm1, c)), alpha_2_sqrtg), a0_inv)
      b0     == RMul(RMul(g, RAdd(RSub(gp1, RMul(gm1, c)), alpha_2_sqrtg)),
                     a0_inv)
      b1     == RMul(RMul(RMul(R(2), g), RSub(gm1, RMul(gp1, c))), a0_inv)
      b2     == RMul(RMul(g, RSub(RSub(gp1, RMul(gm1, c)), alpha_2_sqrtg)),
                     a0_inv)
  IN  [b |-> <<b0, b1, b2>>, a |-> <<a1, a2>>]

\* highShelf: H(s) = A * (A*s^2 + (sqrt(A)/Q)*s + 1)/(s^2 + (sqrt(A)/Q)*s + A)
rta_biquad_highshelf_coefs(b, a, f0, q, gain) ==
  LET g      == rta_sqrt(gain)
      w0     == MPiTimes(f0)
      alpha_2_sqrtg == RDiv(RMul(rta_sin(w0), rta_sqrt(g)), q)
      c      == rta_cos(w0)
      gp1    == RAdd(g, R(1))
      gm1    == RSub(g, R(1))
      a0_inv == RDiv(R(1), RAdd(RSub(gp1, RMul(gm1, c)), alpha_2_sqrtg))
      a1     == RMul(RMul(R(2), RSub(gm1, RMul(gp1, c))), a0_inv)
      a2     == RMul(RSub(RSub(gp1, RMul(gm1, c)), alpha_2_sqrtg), a0_inv)
      b0     == RMul(RMul(g, RAdd(RAdd(gp1, RMul(gm1, c)), alpha_2_sqrtg)),
                     a0_inv)
      b1     == RMul(RMul(RMul(R(-2), g), RAdd(gm1, RMul(gp1, c))), a0_inv)
      b2     == RMul(RMul(g, RSub(RAdd(gp1, RMul(gm1, c)), alpha_2_sqrtg)),
                     a0_inv)
  IN  [b |-> <<b0, b1, b2>>, a |-> <<a1, a2>>]

-----------------------------------------------------------------------------
(* The dispatcher *)

FilterTypes ==
  { "rta_lowpass", "rta_highpass", "rta_bandpass_constant_skirt",
    "rta_bandpass_constant_peak", "rta_notch", "rta_allpass",
    "rta_peaking", "rta_lowshelf", "rta_highshelf" }

\* a tag that is none of the nine enumerated values
UnknownTypes == { "rta_unknown_type" }

\* a second switch that scales b for every type
PostScaledTypes_all == FilterTypes

\* the case labels of the second switch: the types whose b is scaled by gain
PostScaledTypes ==
  { "rta_lowpass", "rta_highpass", "rta_bandpass_constant_skirt",
    "rta_bandpass_constant_peak", "rta_notch", "rta_allpass" }

\* first switch: the formula of the type, nothing for any other tag
SelectFormula(b, a, type, f0, q, gain) ==
  CASE type = "rta_lowpass"  -> rta_biquad_lowpass_coefs(b, a, f0, q)
    [] type = "rta_highpass" -> rta_biquad_highpass_coefs(b, a, f0, q)
    [] type = "rta_bandpass_constant_skirt"
                             -> rta_biquad_bandpass_constant_skirt_coefs(b, a, f0, q)
    [] type = "rta_bandpass_constant_peak"
                             -> rta_biquad_bandpass_constant_peak_coefs(b, a, f0, q)
    [] type = "rta_notch"    -> rta_biquad_notch_coefs(b, a, f0, q)
    [] type = "rta_allpass"  -> rta_biquad_allpass_coefs(b, a, f0, q)
    [] type = "rta_peaking"  -> rta_biquad_peaking_coefs(b, a, f0, q, gain)
    [] type = "rta_lowshelf" -> rta_biquad_lowshelf_coefs(b, a, f0, q, gain)
    [] type = "rta_highshelf" -> rta_biquad_highshelf_coefs(b, a, f0, q, gain)
    [] OTHER                 -> [b |-> b, a |-> a]

\* second switch: b[i] *= gain when gain != 1.
PostScale(r, type, gain) ==
  IF type \in PostScaledTypes /\ gain # R(1)
  THEN [b |-> <<RMul(r.b[1], gain), RMul(r.b[2], gain), RMul(r.b[3], gain)>>,
        a |-> r.a]
  ELSE r

rta_biquad_coefs(b, a, type, f0, q, gain) ==
  PostScale(SelectFormula(b, a, type, f0, q, gain), type, gain)

-----------------------------------------------------------------------------
(* Inputs *)

ValidF0 == { <<1, 2>>, <<128, 625>>, <<369, 1250>>, <<497, 625>> }

InvalidF0 == { <<0, 1>>, <<-128, 625>>, <<753, 625>> }

F0Values == ValidF0 \cup InvalidF0

ValidQ == { <<1, 2>>, <<2, 1>> }

InvalidQ == { <<0, 1>>, <<-1, 1>> }

QValues == ValidQ \cup InvalidQ

ValidGain == { <<1, 1>>, <<16, 1>>, <<1, 16>> }

InvalidGain == { <<0, 1>>, <<-1, 1>> }

GainValues == ValidGain \cup InvalidGain

\* what one slot of a buffer the caller never wrote may hold: any value of
\* rta_real_t, here one of each kind (zero, finite of either sign, NaN,
\* either infinity)
Uninitialised ==
  { <<0, 1>>, <<3, 1>>, <<-1, 250>>, RNaN, <<1, 0>>, <<-1, 0>> }

\* what the four slots a notch call overwrites (b[0], b[2], a[0], a[1]) may
\* hold next to b[1]: any values, equal or not.  Every slot takes every
\* kind of value (the four slots equal, zeroed memory among them), and the
\* slots also hold values that differ, in part or all
UninitialisedRest ==
  { <<k, k, k, k>> : k \in Uninitialised } \cup
  { << <<2593, 2>>, <<1, 32>>, <<2589, 2>>, <<2591, 2>> >>,
    << RNaN, <<-1, 0>>, <<0, 1>>, <<1, 0>> >>,
    << <<1, 32>>, <<1, 32>>, <<-1, 250>>, <<1, 32>> >> }

\* the never-written buffers b[3] and a[2] as the first call finds them
UninitialisedBuffers ==
  { [b |-> <<o[1], s, o[2]>>, a |-> <<o[3], o[4]>>] :
      s \in Uninitialised, o \in UninitialisedRest }

NoGain == <<>>

NoCall == [fn |-> "none", type |-> "none", gain |-> NoGain]

-----------------------------------------------------------------------------
(* State machine of a design session: the caller's buffers b and a, and    *)
(* calls of the ten functions on them at the session's f0 and q.           *)

MexIdle ==
  /\ mex_in = [sample_rate |-> 1, min_freq |-> 1, input_size |-> 0]
  /\ plhs = <<>>
  /\ yin_calls = 0
  /\ diag = <<>>
  /\ mex_pc = "idle"

Init ==
  /\ f0_in \in F0Values
  /\ q_in \in QValues
  /\ \E m \in UninitialisedBuffers : b_buf = m.b /\ a_buf = m.a
  /\ last = NoCall
  /\ ret = "none"
  /\ ncalls = 0
  /\ MexIdle

\* a call that returns: the buffers as left, the call recorded
Returned(r, fn, type, gain) ==
  /\ ncalls < MaxCalls
  /\ b_buf' = r.b
  /\ a_buf' = r.a
  /\ last' = [fn |-> fn, type |-> type, gain |-> gain]
  /\ ret' = "void"
  /\ ncalls' = ncalls + 1
  /\ UNCHANGED <<f0_in, q_in>>
  /\ UNCHANGED mex_vars

Lowpass ==
  Returned(rta_biquad_lowpass_coefs(b_buf, a_buf, f0_in, q_in),
           "rta_biquad_lowpass_coefs", "none", NoGain)

Highpass ==
  Returned(rta_biquad_highpass_coefs(b_buf, a_buf, f0_in, q_in),
           "rta_biquad_highpass_coefs", "none", NoGain)

BandpassConstantSkirt ==
  Returned(rta_biquad_bandpass_constant_skirt_coefs(b_buf, a_buf, f0_in, q_in),
           "rta_biquad_bandpass_constant_skirt_coefs", "none", NoGain)

BandpassConstantPeak ==
  Returned(rta_biquad_bandpass_constant_peak_coefs(b_buf, a_buf, f0_in, q_in),
           "rta_biquad_bandpass_constant_peak_coefs", "none", NoGain)

Notch ==
  Returned(rta_biquad_notch_coefs(b_buf, a_buf, f0_in, q_in),
           "rta_biquad_notch_coefs", "none", NoGain)

Allpass ==
  Returned(rta_biquad_allpass_coefs(b_buf, a_buf, f0_in, q_in),
           "rta_biquad_allpass_coefs", "none", NoGain)

Peaking ==
  \E gain \in GainValues :
    Returned(rta_biquad_peaking_coefs(b_buf, a_buf, f0_in, q_in, gain),
             "rta_biquad_peaking_coefs", "none", gain)

Lowshelf ==
  \E gain \in GainValues :
    Returned(rta_biquad_lowshelf_coefs(b_buf, a_buf, f0_in, q_in, gain),
             "rta_biquad_lowshelf_coefs", "none", gain)

Highshelf ==
  \E gain \in GainValues :
    Returned(rta_biquad_highshelf_coefs(b_buf, a_buf, f0_in, q_in, gain),
             "rta_biquad_highshelf_coefs", "none", gain)

Coefs ==
  \E type \in FilterTypes \cup UnknownTypes, gain \in GainValues :
    Returned(rta_biquad_coefs(b_buf, a_buf, type, f0_in, q_in, gain),
             "rta_biquad_coefs", type, gain)

Next ==
  \/ Lowpass
  \/ Highpass
  \/ BandpassConstantSkirt
  \/ BandpassConstantPeak
  \/ Notch
  \/ Allpass
  \/ Peaking
  \/ Lowshelf
  \/ Highshelf
  \/ Coefs

Spec == Init /\ [][Next]_vars

-----------------------------------------------------------------------------
(* The yin mex entry point *)

SampleRates == { 8, 10, 12, 16 }

MinFreqs == { 2, 3, 4, 5 }

\* ceil(x / y) for positive doubles holding integers
Ceil(x, y) == (x + y - 1) \div y

\* ac_size = (unsigned int)ceil(sample_rate / min_freq) + 2
AcSize(sample_rate, min_freq) == Ceil(sample_rate, min_freq) + 2

\* the test with <= for <
LongEnough_or_equal(ac_size, input_size) == ac_size <= input_size

\* if(ac_size < input_size)
LongEnough(ac_size, input_size) == ac_size < input_size

InitYin ==
  /\ f0_in = <<1, 2>>
  /\ q_in = <<1, 2>>
  /\ b_buf = <<R(0), R(0), R(0)>>
  /\ a_buf = <<R(0), R(0)>>
  /\ last = NoCall
  /\ ret = "none"
  /\ ncalls = 0
  /\ mex_in \in [sample_rate : SampleRates, min_freq : MinFreqs,
                 input_size : 0..MaxInputSize]
  /\ plhs = <<>>
  /\ yin_calls = 0
  /\ diag = <<>>
  /\ mex_pc = "ready"

mexFunction ==
  /\ mex_pc = "ready"
  /\ LET ac_size == AcSize(mex_in.sample_rate, mex_in.min_freq)
     IN  IF LongEnough(ac_size, mex_in.input_size)
         THEN /\ plhs' = <<1, 1, 1, 1, ac_size>>
              /\ yin_calls' = yin_calls + 1
              /\ diag' = <<>>
         ELSE /\ plhs' = plhs
              /\ yin_calls' = yin_calls
              /\ diag' = <<ac_size + 1, 2 * ac_size,
                           mex_in.min_freq, mex_in.sample_rate>>
  /\ mex_pc' = "done"
  /\ UNCHANGED mex_in
  /\ UNCHANGED biquad_vars

NextYin == mexFunction

SpecYin == InitYin /\ [][NextYin]_vars

-----------------------------------------------------------------------------
(* Vocabulary of the properties *)

\* the parameter domain: 0 < f0 < 1, q > 0, gain > 0
InDomainF0(f) == RLess(R(0), f) /\ RLess(f, R(1))

InDomainQ(x) == RLess(R(0), x)

InDomainGain(g) == RLess(R(0), g)

\* the last call had a gain argument
HasGain == last.gain # NoGain

\* every parameter of the last call is in its domain
CallInDomain ==
  /\ InDomainF0(f0_in)
  /\ InDomainQ(q_in)
  /\ HasGain => InDomainGain(last.gain)

GainlessShapes ==
  { "rta_lowpass", "rta_highpass", "rta_bandpass_constant_skirt",
    "rta_bandpass_constant_peak", "rta_notch", "rta_allpass" }

GainShapes == { "rta_peaking", "rta_lowshelf", "rta_highshelf" }

NineShapes == GainlessShapes \cup GainShapes

ByDispatcher == last.fn = "rta_biquad_coefs"

Scaled(bs, k) == <<RMul(bs[1], k), RMul(bs[2], k), RMul(bs[3], k)>>

AllFinite ==
  /\ \A i \in 1..3 : IsFinite(b_buf[i])
  /\ \A i \in 1..2 : IsFinite(a_buf[i])

Out == [b |-> b_buf, a |-> a_buf]

-----------------------------------------------------------------------------
(* Properties *)

\* two successive dispatcher calls of the same gain-less type at the same
\* valid (f0, q), both with a gain > 0
C1_Pair ==
  /\ ByDispatcher
  /\ last'.fn = "rta_biquad_coefs"
  /\ last'.type = last.type
  /\ last.type \in GainlessShapes
  /\ InDomainF0(f0_in) /\ InDomainQ(q_in)
  /\ InDomainGain(last.gain) /\ InDomainGain(last'.gain)

\* C1: gain linearity of the dispatcher.  Of two successive dispatcher calls
\* of the same gain-less type at the same valid (f0, q), one with gain 1 and
\* one with gain k > 0, the b left by the gain-k call is k times the b left
\* by the gain-1 call, and both leave the same a.
C1_GainLinearity ==
  [][ C1_Pair =>
        /\ last.gain = R(1) =>
             (b_buf' = Scaled(b_buf, last'.gain) /\ a_buf' = a_buf)
        /\ last'.gain = R(1) =>
             (b_buf = Scaled(b_buf', last.gain) /\ a_buf = a_buf') ]_vars

\* C2: no double application of gain.  After a dispatcher call of type
\* peaking, lowshelf or highshelf the buffers hold exactly what the formula
\* function of that type writes for the same (f0, q, gain).
C2_NoDoubleGain ==
  (ByDispatcher /\ last.type \in GainShapes) =>
     Out = (CASE last.type = "rta_peaking" ->
                   rta_biquad_peaking_coefs(b_buf, a_buf, f0_in, q_in, last.gain)
              [] last.type = "rta_lowshelf" ->
                   rta_biquad_lowshelf_coefs(b_buf, a_buf, f0_in, q_in, last.gain)
              [] last.type = "rta_highshelf" ->
                   rta_biquad_highshelf_coefs(b_buf, a_buf, f0_in, q_in, last.gain))

\* a dispatcher call of a gain shape with a valid gain other than 1 returned
\* finite coefficients
C2_Witness ==
  /\ ByDispatcher
  /\ last.type \in GainShapes
  /\ CallInDomain
  /\ last.gain # R(1)
  /\ AllFinite

\* C3: a dispatcher call with a type tag outside the nine enumerated values
\* returns an error to its caller.
C3_UnknownTypeIsError ==
  (ByDispatcher /\ last.type \notin NineShapes) => ret = "error"

\* C4: a design call with an out-of-domain parameter returns a validation
\* error and leaves no NaN or infinite coefficient.
C4_DomainViolationIsError ==
  (last.fn # "none" /\ ~CallInDomain) => (ret = "error" /\ AllFinite)

\* C5: determinism.  A call of one of the nine formulas, direct or through
\* the dispatcher, repeated with the same valid parameters leaves the same
\* five outputs as the call before it, whatever the buffers held.
C5_Deterministic ==
  [][ (/\ last.fn # "none"
       /\ last' = last
       /\ ByDispatcher => last.type \in NineShapes
       /\ CallInDomain)
        => (b_buf' = b_buf /\ a_buf' = a_buf) ]_vars

\* C6: allpass symmetry.  After rta_biquad_allpass_coefs at a valid (f0, q):
\* b0 = a2, b1 = a1 and b2 = 1.
C6_AllpassSymmetry ==
  (last.fn = "rta_biquad_allpass_coefs" /\ CallInDomain) =>
     /\ b_buf[1] = a_buf[2]
     /\ b_buf[2] = a_buf[1]
     /\ b_buf[3] = R(1)

\* an allpass call at a valid point where a1 and a2 differ
C6_Witness ==
  /\ last.fn = "rta_biquad_allpass_coefs"
  /\ CallInDomain
  /\ a_buf[1] # a_buf[2]
  /\ AllFinite

\* the last call designed a peaking, lowshelf or highshelf filter
C7_GainShapeCall ==
  \/ last.fn \in { "rta_biquad_peaking_coefs", "rta_biquad_lowshelf_coefs",
                   "rta_biquad_highshelf_coefs" }
  \/ ByDispatcher /\ last.type \in GainShapes

\* C7: flat response at unit gain.  After a peaking, lowshelf or highshelf
\* design with gain 1 at a valid (f0, q), direct or through the dispatcher:
\* b0 = 1, b1 = a1, b2 = a2.
C7_FlatAtUnitGain ==
  (C7_GainShapeCall /\ CallInDomain /\ last.gain = R(1)) =>
     /\ b_buf[1] = R(1)
     /\ b_buf[2] = a_buf[1]
     /\ b_buf[3] = a_buf[2]

\* a unit-gain lowshelf design through the dispatcher, with a1 # 0
C7_Witness ==
  /\ ByDispatcher
  /\ last.type = "rta_lowshelf"
  /\ CallInDomain
  /\ last.gain = R(1)
  /\ a_buf[1] # R(0)

\* C9: lowpass reference.  After a dispatcher call of type lowpass with gain
\* 1 at a valid (f0, q), with c = cos(pi f0) and alpha = sin(pi f0)/(2q):
\* a1 = -2c/(1+alpha), a2 = (1-alpha)/(1+alpha),
\* b0 = b2 = ((1-c)/2)/(1+alpha), b1 = (1-c)/(1+alpha) = 2 b0.
C9_LowpassReference ==
  (ByDispatcher /\ last.type = "rta_lowpass" /\ CallInDomain
     /\ last.gain = R(1)) =>
     LET c     == rta_cos(MPiTimes(f0_in))
         alpha == RDiv(rta_sin(MPiTimes(f0_in)), RMul(R(2), q_in))
         a0    == RAdd(R(1), alpha)
     IN  /\ a_buf[1] = RDiv(RMul(R(-2), c), a0)
         /\ a_buf[2] = RDiv(RSub(R(1), alpha), a0)
         /\ b_buf[1] = RDiv(RDiv(RSub(R(1), c), R(2)), a0)
         /\ b_buf[3] = b_buf[1]
         /\ b_buf[2] = RDiv(RSub(R(1), c), a0)
         /\ b_buf[2] = RMul(R(2), b_buf[1])

\* a unit-gain lowpass design through the dispatcher at f0 # 1/2
C9_Witness ==
  /\ ByDispatcher
  /\ last.type = "rta_lowpass"
  /\ CallInDomain
  /\ last.gain = R(1)
  /\ f0_in # <<1, 2>>
  /\ AllFinite

\* C10: notch middle numerator term.  After rta_biquad_notch_coefs at a
\* valid (f0, q): b1 = -2 c a0_inv = a1, and b0 = b2 = a0_inv.
C10_NotchB1 ==
  (last.fn = "rta_biquad_notch_coefs" /\ CallInDomain) =>
     LET c      == rta_cos(MPiTimes(f0_in))
         alpha  == RDiv(rta_sin(MPiTimes(f0_in)), RMul(R(2), q_in))
         a0_inv == RDiv(R(1), RAdd(R(1), alpha))
     IN  /\ b_buf[2] = RMul(RMul(R(-2), c), a0_inv)
         /\ b_buf[2] = a_buf[1]
         /\ b_buf[1] = a0_inv
         /\ b_buf[3] = a0_inv

-----------------------------------------------------------------------------
(* Properties of the yin mex entry point, under SpecYin *)

\* ceil(sample_rate / min_freq) + 2, by the definition of the ceiling
RequiredSize ==
  2 + CHOOSE m \in 0..mex_in.sample_rate :
        /\ m * mex_in.min_freq >= mex_in.sample_rate
        /\ (m - 1) * mex_in.min_freq < mex_in.sample_rate

NoOutputs == plhs = <<>> /\ yin_calls = 0 /\ diag # <<>>

FiveOutputs == Len(plhs) = 5 /\ yin_calls = 1 /\ diag = <<>>

\* C8 as stated: no outputs, no rta_yin and the diagnostic when
\* input_size < ac_size; the five outputs when input_size >= ac_size.
C8_AsStated ==
  mex_pc = "done" =>
     /\ mex_in.input_size < RequiredSize => NoOutputs
     /\ mex_in.input_size >= RequiredSize => FiveOutputs

\* C8 amended: no outputs, no rta_yin and the diagnostic when
\* input_size <= ac_size; the five outputs, the fifth of ac_size elements,
\* when input_size > ac_size.
C8_StrictlyLonger ==
  mex_pc = "done" =>
     /\ mex_in.input_size <= RequiredSize => NoOutputs
     /\ mex_in.input_size > RequiredSize =>
          (FiveOutputs /\ plhs[5] = RequiredSize)

\* the call returned for an input of exactly ac_size points
C8_Witness ==
  /\ mex_pc = "done"
  /\ mex_in.input_size = RequiredSize
  /\ diag # <<>>
  /\ diag[1] = mex_in.input_size + 1

=============================================================================
